---------------------------- MODULE Spec2Model ----------------------------
(***************************************************************************)
(* A model of the yagalog Logger (logger.go): one Logger shared by         *)
(* concurrent goroutines, its console sink, its file sink and the mutex    *)
(* guarding the file sink.  Every goroutine runs a bounded sequence of     *)
(* calls of the Logger's methods; a method is split into steps at each     *)
(* access to a field of the Logger, to the mutex, to the console or to a   *)
(* file handle, so that every interleaving of those accesses is explored.  *)
(***************************************************************************)
EXTENDS Integers, Sequences, FiniteSets, TLC

\* ------------------------------------------------------------- bounds
NumThreads == 2        \* goroutines sharing the Logger
MaxCalls == 2          \* emission calls the goroutines make in total
MaxControl == 2        \* configuration and sink-control calls made in total

Threads == 1..NumThreads

\* ---------------------------------------------------- program constants
DEBUG == 0
INFO == 1
WARNING == 2
ERROR == 3
FATAL == 4

Nil == 0               \* the nil *os.File
Unlocked == 0          \* the zero sync.Mutex

Severities == {DEBUG, INFO, WARNING, ERROR, FATAL}
\* SetLevel takes any LogLevel (an int): the five named ones and one above FATAL
LevelValues == DEBUG..(FATAL + 1)

DefaultTimeFormat == "2006-01-02 15:04:05"
Layouts == {"", DefaultTimeFormat, "RFC3339Nano"}

\* The paths callers open: InitPath is NewLogger's, BadPath cannot be opened.
InitPath == "app.log"
OtherPath == "new.log"
BadPath == "/no/such/dir/x.log"
Writable == {InitPath, OtherPath}
Paths == Writable \cup {BadPath}

\* fmt.Sprintf("%s:%d", filepath.Base(file), line) of a call site
CallerLoc == <<"m", ".", "g", "o", ":", "1", "3">>

\* The bytes messages are made of: a letter, the characters a JSON string
\* escapes, the markup characters it could escape, and a byte that is not
\* valid UTF-8.
Quote == "\""
Backslash == "\\"
Newline == "\n"
BadByte == "0xff"
Replacement == "U+FFFD"

\* The messages callers pass: the n-th call of a goroutine passes the n-th of
\* these, in turn.
Texts == << <<"a", Quote, Backslash, Newline, "<", "&">>, <<"a", BadByte, "b">> >>

\* ------------------------------------------------------------- state
VARIABLES
    level,          \* Logger.level
    timeFormat,     \* Logger.timeFormat
    withCaller,     \* Logger.withCaller
    jsonMode,       \* Logger.jsonMode
    logFile,        \* Logger.logFile: Nil or an index into handles
    mu,             \* Logger.mu: Unlocked or the goroutine holding it
    noColor,        \* the process-wide color.NoColor
    prefixColored,  \* whether the five console prefixes were rendered in color
    handles,        \* every *os.File opened so far: path, open, times closed
    files,          \* the content of each file: a sequence of written chunks
    console,        \* the lines written to os.Stdout
    exited,         \* the process has ended through os.Exit(1)
    pc,             \* each goroutine's position
    calls,          \* the number of calls each goroutine has made
    controls,       \* the number of those that were not emission calls
    loc,            \* each goroutine's locals in its current call
    ret             \* each goroutine's current or last call and its result

logger == <<level, timeFormat, withCaller, jsonMode, logFile, mu>>
sinks == <<handles, files, console>>
vars == <<level, timeFormat, withCaller, jsonMode, logFile, mu, noColor,
          prefixColored, handles, files, console, exited, pc, calls,
          controls, loc, ret>>

\* ------------------------------------------------------------ helpers
NoRecord == [fmt |-> "", time |-> "", level |-> <<>>, msg |-> <<>>,
             body |-> <<>>, caller |-> <<>>]

NoLocals == [sev |-> DEBUG, path |-> "", layout |-> "", err |-> FALSE,
             caller |-> <<>>, now |-> "", rec |-> NoRecord, target |-> ""]

Idle == [op |-> "", res |-> "none"]

MethodName(sev) ==
    CASE sev = DEBUG -> "Debug"
      [] sev = INFO -> "Info"
      [] sev = WARNING -> "Warning"
      [] sev = ERROR -> "Error"
      [] sev = FATAL -> "Fatal"

\* levelStr of log(): the bracketed tag followed by a space
LevelStr(sev) ==
    CASE sev = DEBUG -> <<"[", "D", "E", "B", "U", "G", "]", " ">>
      [] sev = INFO -> <<"[", "I", "N", "F", "O", "]", " ">>
      [] sev = WARNING -> <<"[", "W", "A", "R", "N", "I", "N", "G", "]", " ">>
      [] sev = ERROR -> <<"[", "E", "R", "R", "O", "R", "]", " ">>
      [] sev = FATAL -> <<"[", "F", "A", "T", "A", "L", "]", " ">>

\* levelStr[1:len(levelStr)-2]: Go's half-open slice, zero-based
JSONLevelKeepsBracket(sev) == SubSeq(LevelStr(sev), 2, Len(LevelStr(sev)) - 1)
JSONLevel(sev) == SubSeq(LevelStr(sev), 2, Len(LevelStr(sev)) - 2)

\* The message of goroutine t's current call: distinct for every call.
Msg(t) == <<t, calls[t]>>

\* the text of the message of call id
Text(id) == Texts[((id[2] - 1) % Len(Texts)) + 1]

\* encoding/json, with SetEscapeHTML(false), on one byte of a string: the
\* quote, the backslash and the newline are escaped, the markup characters
\* are not, and a byte that is not valid UTF-8 becomes the escape of U+FFFD
JSONEscape(c) ==
    CASE c = Quote -> <<Backslash, Quote>>
      [] c = Backslash -> <<Backslash, Backslash>>
      [] c = Newline -> <<Backslash, "n">>
      [] c = BadByte -> <<Backslash, "u", "f", "f", "f", "d">>
      [] OTHER -> <<c>>

RECURSIVE JSONChars(_)
JSONChars(s) == IF s = <<>> THEN <<>> ELSE JSONEscape(Head(s)) \o JSONChars(Tail(s))

\* a string as enc.Encode writes it: quoted and escaped
JSONString(s) == <<Quote>> \o JSONChars(s) \o <<Quote>>

\* os.OpenFile(path, O_APPEND|O_CREATE|O_WRONLY, 0666) succeeds
CanOpen(path) == path \in Writable

\* A Write on handle h reaches its file: h is a handle and is not closed.
Usable(h) == h # Nil /\ handles[h].open

\* (*os.File).Close on handle h: nothing to close on nil; a handle is closed
\* from its first Close on, and every Close on it is counted
Closed(h) ==
    IF h = Nil THEN handles
    ELSE [handles EXCEPT ![h] = [@ EXCEPT !.open = FALSE, !.closes = @ + 1]]

\* the caller's `level > SEV` test in Debug, Info, Warning, Error, Fatal
FilteredOffByOne(sev) == level > sev + 1
FilteredNever(sev) == FALSE
Filtered(sev) == level > sev

\* log()'s `level < l.level` test
LevelGuardShifted(sev) == sev < level + 2
LevelGuard(sev) == sev < level

\* log()'s `l.logFile == nil` test
SinkAbsentInverted == logFile # Nil
SinkAbsent == logFile = Nil

\* l.mu.Lock() by t: blocks while another goroutine holds the mutex
LockNoWait(t) == mu' = t
Lock(t) == mu = Unlocked /\ mu' = t

\* the deferred l.mu.Unlock()
Unlock(t) == mu' = Unlocked

\* a method of goroutine t returns with result r
Return(t, r) ==
    /\ pc' = [pc EXCEPT ![t] = "idle"]
    /\ ret' = [ret EXCEPT ![t] = [@ EXCEPT !.res = r]]
    /\ loc' = [loc EXCEPT ![t] = NoLocals]

\* log() returns to its caller: Fatal goes on to os.Exit(1)
LogReturns(t, r) ==
    IF loc[t].sev = FATAL
    THEN /\ pc' = [pc EXCEPT ![t] = "exit"]
         /\ UNCHANGED <<ret, loc>>
    ELSE Return(t, r)

\* the number of calls goroutines 1..n have made
RECURSIVE CallsOf(_)
CallsOf(n) == IF n = 0 THEN 0 ELSE calls[n] + CallsOf(n - 1)

TotalCalls == CallsOf(NumThreads)

\* the emission calls made so far
Emissions == TotalCalls - controls

\* goroutine t may start an emission call
CanCall(t) == ~exited /\ pc[t] = "idle" /\ Emissions < MaxCalls

\* goroutine t may start a configuration or sink-control call
CanControl(t) == ~exited /\ pc[t] = "idle" /\ controls < MaxControl

Begin(t, name) ==
    /\ calls' = [calls EXCEPT ![t] = @ + 1]
    /\ ret' = [ret EXCEPT ![t] = [op |-> name, res |-> "running"]]

At(t, label) == ~exited /\ pc[t] = label

Goto(t, label) == pc' = [pc EXCEPT ![t] = label]

\* ------------------------------------------------------------ NewLogger
\* NewLogger(path) has succeeded.  nocolor is color.NoColor as the
\* environment leaves it (FORCE_COLOR, NO_COLOR, or whether stdout is a
\* terminal); the five console prefixes are rendered once, here.
NewLogger(path, nocolor) ==
    /\ level = DEBUG
    /\ timeFormat = DefaultTimeFormat
    /\ withCaller = FALSE
    /\ jsonMode = FALSE
    /\ logFile = 1
    /\ mu = Unlocked
    /\ noColor = nocolor
    /\ prefixColored = ~nocolor
    /\ handles = <<[path |-> path, open |-> TRUE, closes |-> 0]>>
    /\ files = [p \in Writable |-> <<>>]
    /\ console = <<>>
    /\ exited = FALSE
    /\ pc = [t \in Threads |-> "idle"]
    /\ calls = [t \in Threads |-> 0]
    /\ controls = 0
    /\ loc = [t \in Threads |-> NoLocals]
    /\ ret = [t \in Threads |-> Idle]

\* the Logger of a process whose console takes colors
Init == NewLogger(InitPath, FALSE)

\* the Logger of any process
InitAnyColor == \E nocolor \in BOOLEAN : NewLogger(InitPath, nocolor)

\* ------------------------------------------------------------ emission
\* Debug, Info, Warning, Error, Fatal: the threshold test, then log()
Emit(t, sev) ==
    /\ CanCall(t)
    /\ calls' = [calls EXCEPT ![t] = @ + 1]
    /\ IF Filtered(sev)
       THEN /\ ret' = [ret EXCEPT ![t] = [op |-> MethodName(sev), res |-> "filtered"]]
            /\ UNCHANGED <<pc, loc>>
       ELSE /\ ret' = [ret EXCEPT ![t] = [op |-> MethodName(sev), res |-> "running"]]
            /\ pc' = [pc EXCEPT ![t] = "log"]
            /\ loc' = [loc EXCEPT ![t] = [NoLocals EXCEPT !.sev = sev]]
    /\ UNCHANGED controls
    /\ UNCHANGED <<logger, noColor, prefixColored, sinks, exited>>

Debug(t) == Emit(t, DEBUG)

Info(t) == Emit(t, INFO)

Warning(t) == Emit(t, WARNING)

Error(t) == Emit(t, ERROR)

Fatal(t) == Emit(t, FATAL)

\* the line one of the five log.Logger values prints: its prefix and the message
ConsoleLine(t) ==
    [tag |-> LevelStr(loc[t].sev), colored |-> prefixColored, msg |-> Msg(t)]

\* log(): the level guard and the console line
LogConsole(t) ==
    /\ At(t, "log")
    /\ IF LevelGuard(loc[t].sev)
       THEN /\ LogReturns(t, "filtered")
            /\ UNCHANGED console
       ELSE /\ console' = Append(console, ConsoleLine(t))
            /\ Goto(t, "filecheck")
            /\ UNCHANGED <<ret, loc>>
    /\ UNCHANGED controls
    /\ UNCHANGED <<logger, noColor, prefixColored, handles, files, exited, calls>>

\* log(): `if l.logFile == nil { return }`, read without the mutex
LogFileCheck(t) ==
    /\ At(t, "filecheck")
    /\ IF SinkAbsent
       THEN LogReturns(t, "ok")
       ELSE /\ Goto(t, "caller")
            /\ UNCHANGED <<ret, loc>>
    /\ UNCHANGED controls
    /\ UNCHANGED <<logger, noColor, prefixColored, sinks, exited, calls>>

\* log(): `if l.withCaller`, read without the mutex; runtime.Caller may fail
LogCaller(t) ==
    /\ At(t, "caller")
    /\ \E ok \in BOOLEAN :
          loc' = [loc EXCEPT ![t] =
                    [@ EXCEPT !.caller = IF withCaller /\ ok THEN CallerLoc ELSE <<>>]]
    /\ Goto(t, "now")
    /\ UNCHANGED controls
    /\ UNCHANGED <<logger, noColor, prefixColored, sinks, exited, calls, ret>>

\* log(): time.Now().Format(l.timeFormat), read without the mutex; the
\* timestamp is kept as the layout it was rendered with
LogNow(t) ==
    /\ At(t, "now")
    /\ loc' = [loc EXCEPT ![t] = [@ EXCEPT !.now = timeFormat]]
    /\ Goto(t, "lock")
    /\ UNCHANGED controls
    /\ UNCHANGED <<logger, noColor, prefixColored, sinks, exited, calls, ret>>

\* log(): l.mu.Lock()
LogLock(t) ==
    /\ At(t, "lock")
    /\ Lock(t)
    /\ Goto(t, "write")
    /\ UNCHANGED controls
    /\ UNCHANGED <<level, timeFormat, withCaller, jsonMode, logFile, noColor,
                   prefixColored, sinks, exited, calls, loc, ret>>

\* the record log() encodes: a JSON object, with the key caller only when a
\* caller was found, or a plain line made of the same strings as they are
Record(t) ==
    IF jsonMode
    THEN [fmt |-> "json", time |-> loc[t].now,
          level |-> JSONString(JSONLevel(loc[t].sev)),
          msg |-> Msg(t),
          body |-> JSONString(Text(Msg(t))),
          caller |-> IF loc[t].caller # <<>> THEN JSONString(loc[t].caller) ELSE <<>>]
    ELSE [fmt |-> "text", time |-> loc[t].now, level |-> LevelStr(loc[t].sev),
          msg |-> Msg(t), body |-> Text(Msg(t)), caller |-> loc[t].caller]

\* log(): enc.Encode(entry) or fmt.Fprintln(l.logFile, line), under the mutex.
\* jsonMode and the handle are read here and the record is rendered once.  A
\* nil or closed handle refuses the write and the error is dropped; an open
\* one takes the record's bytes, which the kernel may accept in two pieces:
\* the head here, the tail (with the line terminator) in LogWriteTail.
LogWrite(t) ==
    /\ At(t, "write")
    /\ IF Usable(logFile)
       THEN /\ files' = [files EXCEPT ![handles[logFile].path] =
                            Append(@, [id |-> Msg(t), part |-> "head", rec |-> Record(t)])]
            /\ loc' = [loc EXCEPT ![t] = [@ EXCEPT !.target = handles[logFile].path,
                                                   !.rec = Record(t)]]
            /\ Goto(t, "write2")
       ELSE /\ Goto(t, "unlock")
            /\ UNCHANGED <<files, loc>>
    /\ UNCHANGED controls
    /\ UNCHANGED <<logger, noColor, prefixColored, handles, console, exited, calls, ret>>

\* the rest of the record's bytes: a Write that has begun runs to its end,
\* also on a handle closed meanwhile
LogWriteTail(t) ==
    /\ At(t, "write2")
    /\ files' = [files EXCEPT ![loc[t].target] =
                    Append(@, [id |-> Msg(t), part |-> "tail", rec |-> loc[t].rec])]
    /\ Goto(t, "unlock")
    /\ UNCHANGED controls
    /\ UNCHANGED <<logger, noColor, prefixColored, handles, console, exited, calls, loc, ret>>

\* log(): the deferred l.mu.Unlock(), then the return to the caller
LogUnlock(t) ==
    /\ At(t, "unlock")
    /\ Unlock(t)
    /\ LogReturns(t, "ok")
    /\ UNCHANGED controls
    /\ UNCHANGED <<level, timeFormat, withCaller, jsonMode, logFile, noColor,
                   prefixColored, sinks, exited, calls>>

\* Fatal: os.Exit(1) after log() has returned
FatalExit(t) ==
    /\ At(t, "exit")
    /\ exited' = TRUE
    /\ Goto(t, "exited")
    /\ UNCHANGED controls
    /\ UNCHANGED <<logger, noColor, prefixColored, sinks, calls, loc, ret>>

\* ------------------------------------------------------- configuration
\* SetLevel: one unsynchronized store
SetLevel(t, lv) ==
    /\ CanControl(t)
    /\ controls' = controls + 1
    /\ calls' = [calls EXCEPT ![t] = @ + 1]
    /\ ret' = [ret EXCEPT ![t] = [op |-> "SetLevel", res |-> "ok"]]
    /\ level' = lv
    /\ UNCHANGED <<timeFormat, withCaller, jsonMode, logFile, mu, noColor,
                   prefixColored, sinks, exited, pc, loc>>

\* WithColors: one store to the process-wide color.NoColor
WithColors(t, enable) ==
    /\ CanControl(t)
    /\ controls' = controls + 1
    /\ calls' = [calls EXCEPT ![t] = @ + 1]
    /\ ret' = [ret EXCEPT ![t] = [op |-> "WithColors", res |-> "ok"]]
    /\ noColor' = ~enable
    /\ UNCHANGED <<logger, prefixColored, sinks, exited, pc, loc>>

\* WithTimeFormat: an empty layout is ignored; the layout passed stays in
\* the caller's locals
WithTimeFormatUnchecked(t, layout) ==
    /\ CanControl(t)
    /\ controls' = controls + 1
    /\ calls' = [calls EXCEPT ![t] = @ + 1]
    /\ ret' = [ret EXCEPT ![t] = [op |-> "WithTimeFormat", res |-> "ok"]]
    /\ loc' = [loc EXCEPT ![t] = [NoLocals EXCEPT !.layout = layout]]
    /\ timeFormat' = layout
    /\ UNCHANGED <<level, withCaller, jsonMode, logFile, mu, noColor,
                   prefixColored, sinks, exited, pc>>

WithTimeFormat(t, layout) ==
    /\ CanControl(t)
    /\ controls' = controls + 1
    /\ calls' = [calls EXCEPT ![t] = @ + 1]
    /\ ret' = [ret EXCEPT ![t] = [op |-> "WithTimeFormat", res |-> "ok"]]
    /\ loc' = [loc EXCEPT ![t] = [NoLocals EXCEPT !.layout = layout]]
    /\ timeFormat' = IF layout # "" THEN layout ELSE timeFormat
    /\ UNCHANGED <<level, withCaller, jsonMode, logFile, mu, noColor,
                   prefixColored, sinks, exited, pc>>

\* WithCaller: one unsynchronized store
WithCaller(t, enable) ==
    /\ CanControl(t)
    /\ controls' = controls + 1
    /\ calls' = [calls EXCEPT ![t] = @ + 1]
    /\ ret' = [ret EXCEPT ![t] = [op |-> "WithCaller", res |-> "ok"]]
    /\ withCaller' = enable
    /\ UNCHANGED <<level, timeFormat, jsonMode, logFile, mu, noColor,
                   prefixColored, sinks, exited, pc, loc>>

\* WithJSON: one unsynchronized store
WithJSONToggle(t) ==
    /\ CanControl(t)
    /\ controls' = controls + 1
    /\ calls' = [calls EXCEPT ![t] = @ + 1]
    /\ ret' = [ret EXCEPT ![t] = [op |-> "WithJSON", res |-> "ok"]]
    /\ jsonMode' = ~jsonMode
    /\ UNCHANGED <<level, timeFormat, withCaller, logFile, mu, noColor,
                   prefixColored, sinks, exited, pc, loc>>

WithJSON(t) ==
    /\ CanControl(t)
    /\ controls' = controls + 1
    /\ calls' = [calls EXCEPT ![t] = @ + 1]
    /\ ret' = [ret EXCEPT ![t] = [op |-> "WithJSON", res |-> "ok"]]
    /\ jsonMode' = TRUE
    /\ UNCHANGED <<level, timeFormat, withCaller, logFile, mu, noColor,
                   prefixColored, sinks, exited, pc, loc>>

\* ------------------------------------------------------------ Close
\* Close(): `if l.logFile == nil { return nil }`, without the mutex
Close(t) ==
    /\ CanControl(t)
    /\ controls' = controls + 1
    /\ calls' = [calls EXCEPT ![t] = @ + 1]
    /\ IF logFile = Nil
       THEN /\ ret' = [ret EXCEPT ![t] = [op |-> "Close", res |-> "ok"]]
            /\ UNCHANGED pc
       ELSE /\ ret' = [ret EXCEPT ![t] = [op |-> "Close", res |-> "running"]]
            /\ pc' = [pc EXCEPT ![t] = "cl_close"]
    /\ UNCHANGED <<logger, noColor, prefixColored, sinks, exited, loc>>

\* Close(): `return l.logFile.Close()`: the field is read again; a nil or an
\* already closed handle answers with an error, an open one is closed and
\* may still report an error of the close itself
CloseFile(t) ==
    /\ At(t, "cl_close")
    /\ handles' = Closed(logFile)
    /\ IF Usable(logFile)
       THEN \E failed \in BOOLEAN : Return(t, IF failed THEN "err" ELSE "ok")
       ELSE Return(t, "err")
    /\ UNCHANGED controls
    /\ UNCHANGED <<logger, noColor, prefixColored, files, console, exited, calls>>

\* ------------------------------------------------------------ DisableFile
DisableFile(t) ==
    /\ CanControl(t)
    /\ controls' = controls + 1
    /\ Begin(t, "DisableFile")
    /\ Goto(t, "df_lock")
    /\ UNCHANGED <<logger, noColor, prefixColored, sinks, exited, loc>>

DisableLock(t) ==
    /\ At(t, "df_lock")
    /\ Lock(t)
    /\ Goto(t, "df_close")
    /\ UNCHANGED controls
    /\ UNCHANGED <<level, timeFormat, withCaller, jsonMode, logFile, noColor,
                   prefixColored, sinks, exited, calls, loc, ret>>

\* `if l.logFile != nil { _ = l.logFile.Close()`
DisableCloseInverted(t) ==
    /\ At(t, "df_close")
    /\ IF logFile = Nil
       THEN /\ handles' = Closed(logFile)
            /\ Goto(t, "df_nil")
       ELSE /\ Goto(t, "df_unlock")
            /\ UNCHANGED handles
    /\ UNCHANGED controls
    /\ UNCHANGED <<logger, noColor, prefixColored, files, console, exited, calls, loc, ret>>

DisableClose(t) ==
    /\ At(t, "df_close")
    /\ IF logFile # Nil
       THEN /\ handles' = Closed(logFile)
            /\ Goto(t, "df_nil")
       ELSE /\ Goto(t, "df_unlock")
            /\ UNCHANGED handles
    /\ UNCHANGED controls
    /\ UNCHANGED <<logger, noColor, prefixColored, files, console, exited, calls, loc, ret>>

\* `l.logFile = nil`
DisableClearSkipped(t) ==
    /\ At(t, "df_nil")
    /\ logFile' = logFile
    /\ Goto(t, "df_unlock")
    /\ UNCHANGED controls
    /\ UNCHANGED <<level, timeFormat, withCaller, jsonMode, mu, noColor,
                   prefixColored, sinks, exited, calls, loc, ret>>

DisableClear(t) ==
    /\ At(t, "df_nil")
    /\ logFile' = Nil
    /\ Goto(t, "df_unlock")
    /\ UNCHANGED controls
    /\ UNCHANGED <<level, timeFormat, withCaller, jsonMode, mu, noColor,
                   prefixColored, sinks, exited, calls, loc, ret>>

DisableUnlock(t) ==
    /\ At(t, "df_unlock")
    /\ Unlock(t)
    /\ Return(t, "ok")
    /\ UNCHANGED controls
    /\ UNCHANGED <<level, timeFormat, withCaller, jsonMode, logFile, noColor,
                   prefixColored, sinks, exited, calls>>

\* ------------------------------------------------------------ EnableFile
EnableFile(t, path) ==
    /\ CanControl(t)
    /\ controls' = controls + 1
    /\ Begin(t, "EnableFile")
    /\ Goto(t, "ef_lock")
    /\ loc' = [loc EXCEPT ![t] = [NoLocals EXCEPT !.path = path]]
    /\ UNCHANGED <<logger, noColor, prefixColored, sinks, exited>>

\* l.mu.Lock() in EnableFile
EnableLockSkipped(t) ==
    /\ At(t, "ef_lock")
    /\ mu' = mu
    /\ Goto(t, "ef_close")
    /\ UNCHANGED controls
    /\ UNCHANGED <<level, timeFormat, withCaller, jsonMode, logFile, noColor,
                   prefixColored, sinks, exited, calls, loc, ret>>

EnableLock(t) ==
    /\ At(t, "ef_lock")
    /\ Lock(t)
    /\ Goto(t, "ef_close")
    /\ UNCHANGED controls
    /\ UNCHANGED <<level, timeFormat, withCaller, jsonMode, logFile, noColor,
                   prefixColored, sinks, exited, calls, loc, ret>>

\* `if l.logFile != nil { _ = l.logFile.Close() }`
EnableClose(t) ==
    /\ At(t, "ef_close")
    /\ handles' = Closed(logFile)
    /\ Goto(t, "ef_open")
    /\ UNCHANGED controls
    /\ UNCHANGED <<logger, noColor, prefixColored, files, console, exited, calls, loc, ret>>

\* `f, err := os.OpenFile(...); if err != nil { return err }; l.logFile = f`
EnableOpen(t) ==
    /\ At(t, "ef_open")
    /\ IF CanOpen(loc[t].path)
       THEN /\ handles' = Append(handles, [path |-> loc[t].path, open |-> TRUE, closes |-> 0])
            /\ logFile' = Len(handles) + 1
            /\ UNCHANGED loc
       ELSE /\ loc' = [loc EXCEPT ![t] = [@ EXCEPT !.err = TRUE]]
            /\ UNCHANGED <<handles, logFile>>
    /\ Goto(t, "ef_unlock")
    /\ UNCHANGED controls
    /\ UNCHANGED <<level, timeFormat, withCaller, jsonMode, mu, noColor,
                   prefixColored, files, console, exited, calls, ret>>

\* the deferred l.mu.Unlock(), on the `return err` and the `return nil` path
EnableUnlockLeaks(t) ==
    /\ At(t, "ef_unlock")
    /\ mu' = IF loc[t].err THEN mu ELSE Unlocked
    /\ Return(t, IF loc[t].err THEN "err" ELSE "ok")
    /\ UNCHANGED controls
    /\ UNCHANGED <<level, timeFormat, withCaller, jsonMode, logFile, noColor,
                   prefixColored, sinks, exited, calls>>

EnableUnlock(t) ==
    /\ At(t, "ef_unlock")
    /\ Unlock(t)
    /\ Return(t, IF loc[t].err THEN "err" ELSE "ok")
    /\ UNCHANGED controls
    /\ UNCHANGED <<level, timeFormat, withCaller, jsonMode, logFile, noColor,
                   prefixColored, sinks, exited, calls>>

\* ------------------------------------------------------- specifications
\* the steps inside log()
LogStep(t) ==
    \/ LogConsole(t)
    \/ LogFileCheck(t)
    \/ LogCaller(t)
    \/ LogNow(t)
    \/ LogLock(t)
    \/ LogWrite(t)
    \/ LogWriteTail(t)
    \/ LogUnlock(t)

SinkStep(t) ==
    \/ CloseFile(t)
    \/ DisableLock(t)
    \/ DisableClose(t)
    \/ DisableClear(t)
    \/ DisableUnlock(t)
    \/ EnableLock(t)
    \/ EnableClose(t)
    \/ EnableOpen(t)
    \/ EnableUnlock(t)

\* Goroutines emitting at every severity while others move the threshold and
\* close, disable and enable the file sink.
Next ==
    \E t \in Threads :
        \/ Debug(t)
        \/ Info(t)
        \/ Warning(t)
        \/ Error(t)
        \/ Fatal(t)
        \/ LogStep(t)
        \/ FatalExit(t)
        \/ \E lv \in LevelValues : SetLevel(t, lv)
        \/ Close(t)
        \/ DisableFile(t)
        \/ \E path \in Paths : EnableFile(t, path)
        \/ SinkStep(t)

Spec == Init /\ [][Next]_vars

\* Goroutines emitting and nothing else: the file sink stays open and the
\* configuration stays as NewLogger left it.
NextEmit ==
    \E t \in Threads :
        \/ Info(t)
        \/ Error(t)
        \/ Fatal(t)
        \/ LogStep(t)
        \/ FatalExit(t)

SpecEmit == Init /\ [][NextEmit]_vars

\* Goroutine 1 moves the threshold while the other goroutines emit at every
\* severity.
NextLevel ==
    \/ \E lv \in LevelValues : SetLevel(1, lv)
    \/ \E t \in Threads \ {1} :
          \/ Debug(t)
          \/ Info(t)
          \/ Warning(t)
          \/ Error(t)
          \/ Fatal(t)
          \/ LogStep(t)
          \/ FatalExit(t)

SpecLevel == Init /\ [][NextLevel]_vars

\* Goroutine 1 closes, disables and enables the file sink while the other
\* goroutines emit.
NextSink ==
    \/ Close(1)
    \/ DisableFile(1)
    \/ \E path \in Paths : EnableFile(1, path)
    \/ SinkStep(1)
    \/ \E t \in Threads \ {1} :
          \/ Info(t)
          \/ LogStep(t)

SpecSink == Init /\ [][NextSink]_vars

\* Goroutine 1 closes, disables and enables the file sink and switches to
\* JSON records while the other goroutines emit, under the scheduler's
\* fairness: a goroutine that can take a step of its call takes it, and
\* sync.Mutex hands the mutex to a waiter once it is free.
NextSinkJSON ==
    \/ NextSink
    \/ WithJSON(1)

SpecSinkFair ==
    /\ Init
    /\ [][NextSinkJSON]_vars
    /\ \A t \in Threads : WF_vars(LogStep(t) \/ SinkStep(t))

\* Goroutine 1 configures the Logger of any process while the other
\* goroutines emit.
NextConfig ==
    \/ \E enable \in BOOLEAN : WithColors(1, enable)
    \/ \E layout \in Layouts : WithTimeFormat(1, layout)
    \/ \E enable \in BOOLEAN : WithCaller(1, enable)
    \/ WithJSON(1)
    \/ \E t \in Threads \ {1} :
          \/ Info(t)
          \/ LogStep(t)

SpecConfig == InitAnyColor /\ [][NextConfig]_vars

\* One goroutine switches to JSON records, turns the caller on and off and
\* emits at every severity.
NextJSON ==
    \/ WithJSON(1)
    \/ \E enable \in BOOLEAN : WithCaller(1, enable)
    \/ Debug(1)
    \/ Info(1)
    \/ Warning(1)
    \/ Error(1)
    \/ Fatal(1)
    \/ LogStep(1)
    \/ FatalExit(1)

SpecJSON == Init /\ [][NextJSON]_vars

\* ------------------------------------------------------------- claims
\* goroutine t is between l.mu.Lock() and l.mu.Unlock() in log()
InWriteSection(t) == pc[t] \in {"write", "write2", "unlock"}

\* the chunks of a file form whole records: every head is followed at once by
\* the tail of the same record, unless it is the last chunk and its writer is
\* still writing; every tail follows its own head
WholeRecords(f) ==
    \A i \in 1..Len(f) :
        /\ f[i].part = "head" =>
              IF i < Len(f)
              THEN f[i + 1] = [f[i] EXCEPT !.part = "tail"]
              ELSE pc[f[i].id[1]] = "write2" /\ Msg(f[i].id[1]) = f[i].id
        /\ f[i].part = "tail" => i > 1 /\ f[i - 1] = [f[i] EXCEPT !.part = "head"]

\* the places of goroutine t's n-th call's whole record in file f
RecordsOf(f, id) ==
    {i \in 1..Len(f) : /\ f[i].part = "head"
                       /\ f[i].id = id
                       /\ f[i].rec.msg = id
                       /\ i < Len(f)
                       /\ f[i + 1] = [f[i] EXCEPT !.part = "tail"]}

\* the console lines of goroutine t's n-th call
LinesOf(id) == {i \in 1..Len(console) : console[i].msg = id}

\* goroutine t's n-th call has come back from log()
BackFromLog(t, n) == n < calls[t] \/ pc[t] \in {"idle", "exit", "exited"}

\* no goroutine is inside a call
Quiescent == \A t \in Threads : pc[t] = "idle"

\* the whole records in file f
WholeRecordCount(f) ==
    Cardinality({i \in 1..Len(f) : f[i].part = "tail"})

\* goroutine t calls the emission method of severity sev in this step
Calling(t, sev) ==
    /\ pc[t] = "idle"
    /\ calls'[t] = calls[t] + 1
    /\ ret'[t].op = MethodName(sev)

\* goroutine t runs log()'s level guard in this step
Guarding(t) == pc[t] = "log" /\ pc'[t] # "log"

\* goroutine t's call of method name returns in this step
Returning(t, name) ==
    /\ ret'[t].op = name
    /\ ret'[t].res # "running"
    /\ pc'[t] = "idle"
    /\ calls'[t] # calls[t] \/ pc[t] # "idle"

\* C1: concurrent emissions write their file records one at a time: at most
\* one goroutine is between log()'s Lock and Unlock, and in every file the
\* bytes of a record are never mixed with those of another record.
C1_FileWritesExclusive ==
    /\ Cardinality({t \in Threads : InWriteSection(t)}) <= 1
    /\ \A t \in Threads : InWriteSection(t) => mu = t
    /\ \A p \in Writable : WholeRecords(files[p])

\* C1's case: one emission is halfway through its record while another has
\* passed the sink check and waits for the mutex
C1_Witness ==
    \E t, u \in Threads : t # u /\ pc[t] = "write2" /\ pc[u] = "lock"

\* C2 as claimed, read in the claim's favour: whenever no goroutine holds the
\* mutex (no DisableFile or EnableFile is halfway through its swap), logFile
\* is nil or refers to an open handle.
C2_SinkNilOrOpen ==
    mu = Unlocked => (logFile = Nil \/ handles[logFile].open)

\* C3 as claimed: an EnableFile that returns an error leaves logFile nil.
C3_FailedEnableLeavesNoSink ==
    [][\A t \in Threads :
          (Returning(t, "EnableFile") /\ ret'[t].res = "err") => logFile' = Nil]_vars

\* C4 as claimed: when Close returns, with or without an error, logFile is nil.
C4_CloseMarksClosed ==
    [][\A t \in Threads : Returning(t, "Close") => logFile' = Nil]_vars

\* C5 as claimed: a goroutine about to write to, close, clear or replace the
\* file sink handle holds the mutex.
C5_HandleAccessUnderMutex ==
    \A t \in Threads :
        pc[t] \in {"write", "write2", "df_close", "df_nil", "ef_close",
                   "ef_open", "cl_close"} => mu = t

\* C6: with the sink open and no reconfiguration, every emission call that
\* has returned left exactly one console line and exactly one whole record
\* carrying its message in the file, no chunk is in the file twice, and once
\* all callers are done the file holds exactly one record per call made and
\* the console one line per call.
C6_OneRecordPerCall ==
    /\ \A t \in Threads : \A n \in 1..calls[t] :
          BackFromLog(t, n) =>
              /\ Cardinality(LinesOf(<<t, n>>)) = 1
              /\ Cardinality(RecordsOf(files[InitPath], <<t, n>>)) = 1
              /\ \A i \in RecordsOf(files[InitPath], <<t, n>>) :
                    \A j \in LinesOf(<<t, n>>) :
                        files[InitPath][i].rec.level = console[j].tag
    /\ \A i, j \in 1..Len(files[InitPath]) :
          files[InitPath][i] = files[InitPath][j] => i = j
    /\ Quiescent => /\ Len(files[InitPath]) = 2 * Emissions
                    /\ Len(console) = Emissions

\* C6's case: every goroutine has emitted, all the calls are made and returned
C6_Witness ==
    /\ Quiescent
    /\ Emissions = MaxCalls
    /\ \A t \in Threads : calls[t] >= 1
    /\ Len(files[InitPath]) = 2 * MaxCalls

\* C7: an emission at a severity below the threshold writes nothing to the
\* console, nothing to any file and changes no state of the Logger: the call
\* returns at its threshold test, and log()'s own guard, when the threshold
\* has risen since, returns before the console line.
C7_BelowThresholdSilent ==
    [][\A t \in Threads : \A sev \in Severities :
          /\ (Calling(t, sev) /\ level > sev) =>
                /\ pc'[t] = "idle"
                /\ ret'[t].res = "filtered"
                /\ UNCHANGED <<logger, noColor, prefixColored, sinks, exited>>
          /\ (Guarding(t) /\ loc[t].sev = sev /\ level > sev) =>
                /\ pc'[t] \in {"idle", "exit"}
                /\ UNCHANGED <<logger, noColor, prefixColored, sinks, exited>>]_vars

\* C7's case: an Error call made under a threshold above ERROR has returned
C7_Witness ==
    \E t \in Threads :
        /\ ret[t] = [op |-> "Error", res |-> "filtered"]
        /\ pc[t] = "idle"
        /\ level > ERROR

\* C8: a Fatal call made while the threshold is above FATAL returns at its
\* threshold test: it enters log() only when the test has passed, it writes
\* to no sink, and the process ends only from a Fatal call that went through
\* log().
C8_FatalBelowThresholdReturns ==
    [][\A t \in Threads :
          /\ (Calling(t, FATAL) /\ level > FATAL) =>
                /\ pc'[t] = "idle"
                /\ exited' = exited
                /\ console' = console
                /\ files' = files
          /\ (Calling(t, FATAL) /\ pc'[t] = "log") => level <= FATAL
          /\ (pc'[t] = "exited" /\ pc[t] # "exited") =>
                pc[t] = "exit" /\ ret[t].op = "Fatal"]_vars

\* C8's case: Fatal was called above the threshold and the process lives on
C8_Witness ==
    \E t \in Threads :
        /\ ret[t] = [op |-> "Fatal", res |-> "filtered"]
        /\ level > FATAL
        /\ ~exited

\* C9 as claimed, its console half: when Fatal has ended the process, the
\* FATAL line of that call is on the console.
C9_ExitAfterEmission ==
    \A t \in Threads :
        pc[t] = "exited" =>
            \E i \in 1..Len(console) :
                console[i].msg = Msg(t) /\ console[i].tag = LevelStr(FATAL)

\* C10: a file grows only while it is the file the installed sink refers to,
\* so nothing is added to any file while the sink is absent and nothing is
\* added to a file the sink was moved away from; DisableFile returns with the
\* sink absent; an absent sink becomes present only where EnableFile installs
\* the handle it opened on its path; and a write on an installed open handle
\* appends to the file at that handle's path.
C10_GrowthFollowsSink ==
    [][/\ \A p \in Writable :
             files'[p] # files[p] => logFile # Nil /\ handles[logFile].path = p
       /\ \A t \in Threads :
             /\ Returning(t, "DisableFile") => logFile' = Nil
             /\ (Returning(t, "EnableFile") /\ ret'[t].res = "ok") =>
                   logFile' # Nil /\ handles'[logFile'].path = loc[t].path
             /\ (pc[t] = "write" /\ pc'[t] # "write" /\ Usable(logFile)) =>
                   Len(files'[handles[logFile].path]) =
                       Len(files[handles[logFile].path]) + 1
       /\ (logFile = Nil /\ logFile' # Nil) =>
             \E t \in Threads :
                 /\ pc[t] = "ef_open"
                 /\ handles'[logFile'] =
                       [path |-> loc[t].path, open |-> TRUE, closes |-> 0]]_vars

\* C10's case: DisableFile returned, an emission then left its console line
\* and no record anywhere, EnableFile(OtherPath) succeeded and the next
\* emission left its whole record in OtherPath and nothing in InitPath
C10_Witness ==
    /\ ret[1] = [op |-> "EnableFile", res |-> "ok"]
    /\ handles[1].closes = 1
    /\ Len(handles) = 2
    /\ Usable(logFile) /\ handles[logFile].path = OtherPath
    /\ Quiescent
    /\ Len(console) = 2
    /\ files[InitPath] = <<>>
    /\ WholeRecordCount(files[OtherPath]) = 1

\* the emission method names
EmissionMethods == {MethodName(sev) : sev \in Severities}

\* the positions of log() after its console line
AfterConsole == {"filecheck", "caller", "now", "lock", "write", "write2", "unlock"}

\* C11: an emission at a severity at or above the threshold enters log(),
\* log()'s guard then appends exactly one console line carrying the message,
\* no later step of the call adds another, and the call returns with no error
\* and nothing written to a file the sink cannot reach: whether the handle is
\* open, nil, or closed, the refused write is dropped.
C11_EmissionAlwaysOneConsoleLine ==
    [][\A t \in Threads :
          /\ \A sev \in Severities :
                (Calling(t, sev) /\ level <= sev) => pc'[t] = "log"
          /\ (Guarding(t) /\ level <= loc[t].sev) =>
                /\ console' = Append(console, ConsoleLine(t))
                /\ pc'[t] = "filecheck"
          /\ (pc[t] \in AfterConsole /\ pc'[t] # pc[t]) =>
                /\ console' = console
                /\ pc'[t] \in AfterConsole \cup {"idle", "exit"}
                /\ Cardinality({i \in 1..Len(console) : console[i].msg = Msg(t)}) = 1
                /\ pc'[t] = "idle" => ret'[t].res = "ok"
          /\ (pc[t] = "write" /\ pc'[t] # "write" /\ ~Usable(logFile)) =>
                /\ files' = files
                /\ pc'[t] = "unlock"]_vars

\* C11's case: an Info call has returned with its console line after its
\* write was refused by the handle Close() or a failed EnableFile left closed
C11_Witness ==
    \E t \in Threads :
        /\ ret[t] = [op |-> "Info", res |-> "ok"]
        /\ pc[t] = "idle"
        /\ Cardinality(LinesOf(<<t, calls[t]>>)) = 1
        /\ logFile # Nil /\ ~handles[logFile].open
        /\ \A p \in Writable : files[p] = <<>>
        /\ \A u \in Threads \ {t} : pc[u] = "idle" /\ ret[u].res \in {"ok", "err"}

\* the chunk a step has appended to file p
Appended(p) == files'[p][Len(files'[p])]

\* C12: jsonMode is false after NewLogger, a WithJSON that returns leaves it
\* true, the only step that changes it is a WithJSON and no step takes it
\* from true to false; and a record whose write begins while jsonMode is true,
\* as it is for every emission that takes the mutex after WithJSON returned,
\* is a JSON record in both of its pieces.
C12_JSONModeOneWay ==
    /\ ~jsonMode
    /\ [][/\ jsonMode => jsonMode'
          /\ jsonMode' # jsonMode => \E t \in Threads : Returning(t, "WithJSON")
          /\ \A t \in Threads :
                /\ Returning(t, "WithJSON") => jsonMode'
                /\ (pc[t] = "lock" /\ pc'[t] = "write" /\ jsonMode) => jsonMode'
                /\ (pc[t] = "write" /\ pc'[t] = "write2" /\ jsonMode) =>
                      /\ Appended(handles[logFile].path).rec.fmt = "json"
                      /\ Appended(handles[logFile].path).id = Msg(t)
                      /\ loc'[t].rec.fmt = "json"
                /\ (pc[t] = "write2" /\ pc'[t] = "unlock") =>
                      Appended(loc[t].target).rec = loc[t].rec]_vars

\* C12's case: an emission before WithJSON left a plain record and one after
\* it a JSON record in the same file
C12_Witness ==
    /\ Quiescent
    /\ jsonMode
    /\ Len(files[InitPath]) = 4
    /\ files[InitPath][1].rec.fmt = "text"
    /\ files[InitPath][2].rec.fmt = "text"
    /\ files[InitPath][3].rec.fmt = "json"
    /\ files[InitPath][4].rec.fmt = "json"

\* C13 as claimed: a console line is written with its tag colored exactly
\* when color.NoColor is false at that moment, which is what the last
\* WithColors call, if any, has set.
C13_WithColorsDecidesTag ==
    [][console' # console =>
          console'[Len(console')].colored = ~noColor]_vars

\* the positions of DisableFile
InDisable == {"df_lock", "df_close", "df_nil", "df_unlock"}

\* C14: a DisableFile that finds a sink closes that handle once and returns
\* with the sink absent; a DisableFile that finds no sink, as every further
\* call in a row does, closes nothing and changes neither the sink, nor a
\* handle, nor a file, nor the console, nor the configuration.
C14_DisableFileIdempotent ==
    [][\A t \in Threads :
          /\ (pc[t] = "df_close" /\ pc'[t] # "df_close" /\ logFile # Nil) =>
                /\ handles'[logFile].closes = handles[logFile].closes + 1
                /\ ~handles'[logFile].open
                /\ \A h \in 1..Len(handles) : h # logFile => handles'[h] = handles[h]
                /\ pc'[t] = "df_nil"
          /\ (pc[t] = "df_nil" /\ pc'[t] # "df_nil") =>
                logFile' = Nil /\ handles' = handles /\ pc'[t] = "df_unlock"
          /\ (pc[t] = "df_close" /\ pc'[t] # "df_close" /\ logFile = Nil) =>
                /\ pc'[t] = "df_unlock"
                /\ UNCHANGED <<logger, noColor, prefixColored, sinks, exited>>
          /\ (pc[t] \in {"df_lock", "df_unlock"} /\ pc'[t] # pc[t]) =>
                UNCHANGED <<level, timeFormat, withCaller, jsonMode, logFile,
                            noColor, prefixColored, sinks, exited>>
          /\ Returning(t, "DisableFile") =>
                logFile' = Nil /\ mu' = Unlocked /\ ret'[t].res = "ok"]_vars

\* C14's case: DisableFile was called twice in a row: the sink is absent and
\* the one handle ever opened was closed exactly once
C14_Witness ==
    \E t \in Threads :
        /\ ret[t] = [op |-> "DisableFile", res |-> "ok"]
        /\ pc[t] = "idle"
        /\ calls[t] = 2
        /\ controls = 2
        /\ logFile = Nil
        /\ Len(handles) = 1
        /\ handles[1].closes = 1

\* C15: a WithTimeFormat call with an empty layout leaves timeFormat as it
\* was, one with a non-empty layout makes timeFormat that layout, and either
\* changes nothing else of the Logger, of color.NoColor, of the handles, of
\* the files or of the console.
C15_WithTimeFormatFrame ==
    [][\A t \in Threads :
          Returning(t, "WithTimeFormat") =>
              /\ loc'[t].layout = "" => timeFormat' = timeFormat
              /\ loc'[t].layout # "" => timeFormat' = loc'[t].layout
              /\ UNCHANGED <<level, withCaller, jsonMode, logFile, mu, noColor,
                             prefixColored, sinks, exited>>]_vars

\* C15's case: after a call that replaced the layout, a call with the empty
\* layout has returned and the replaced layout is still in place
C15_Witness ==
    \E t \in Threads :
        /\ ret[t] = [op |-> "WithTimeFormat", res |-> "ok"]
        /\ calls[t] = 2
        /\ controls = 2
        /\ loc[t].layout = ""
        /\ timeFormat = "RFC3339Nano"

\* the bare severity names
BareName(sev) ==
    CASE sev = DEBUG -> <<"D", "E", "B", "U", "G">>
      [] sev = INFO -> <<"I", "N", "F", "O">>
      [] sev = WARNING -> <<"W", "A", "R", "N", "I", "N", "G">>
      [] sev = ERROR -> <<"E", "R", "R", "O", "R">>
      [] sev = FATAL -> <<"F", "A", "T", "A", "L">>

\* a JSON parser on the inside of a string: escapes are undone
RECURSIVE Unescape(_)
Unescape(s) ==
    IF s = <<>> THEN <<>>
    ELSE IF Head(s) # Backslash THEN <<Head(s)>> \o Unescape(Tail(s))
    ELSE IF s[2] = "u" /\ SubSeq(s, 3, 6) = <<"f", "f", "f", "d">>
         THEN <<Replacement>> \o Unescape(SubSeq(s, 7, Len(s)))
    ELSE IF s[2] = "n" THEN <<Newline>> \o Unescape(SubSeq(s, 3, Len(s)))
    ELSE <<s[2]>> \o Unescape(SubSeq(s, 3, Len(s)))

\* a JSON parser on a string value: the text between its quotes
ParseJSONString(e) == Unescape(SubSeq(e, 2, Len(e) - 1))

\* a string is valid UTF-8
ValidUTF8(s) == \A i \in 1..Len(s) : s[i] # BadByte

\* a string with every byte that is not valid UTF-8 replaced by U+FFFD
ToValidUTF8(s) == [i \in 1..Len(s) |-> IF s[i] = BadByte THEN Replacement ELSE s[i]]

\* goroutine t writes the head of a JSON record in this step
WritingJSON(t) == pc[t] = "write" /\ pc'[t] = "write2" /\ jsonMode

\* the record that step has written
Written == Appended(handles[logFile].path).rec

\* C16 as claimed: the level field of a JSON record parses to the bare name
\* of the call's severity, its msg field parses to the emitted message, and
\* its caller field is absent when there is no caller and parses to the caller
\* string otherwise.
C16_JSONRoundTrip ==
    [][\A t \in Threads :
          WritingJSON(t) =>
              /\ ParseJSONString(Written.level) = BareName(loc[t].sev)
              /\ ParseJSONString(Written.body) = Text(Msg(t))
              /\ IF loc[t].caller = <<>>
                 THEN Written.caller = <<>>
                 ELSE ParseJSONString(Written.caller) = loc[t].caller]_vars

\* C16 amended: the level field of a JSON record is the bare name of the
\* call's severity between quotes, with no bracket and no space; its msg and
\* caller fields parse to the emitted message and caller string with every
\* byte that is not valid UTF-8 replaced by U+FFFD, so to exactly the message
\* and caller when these are valid UTF-8; the caller field is absent when
\* there is no caller.
C16_JSONRoundTripValidText ==
    [][\A t \in Threads :
          WritingJSON(t) =>
              /\ Written.level = <<Quote>> \o BareName(loc[t].sev) \o <<Quote>>
              /\ ParseJSONString(Written.level) = BareName(loc[t].sev)
              /\ ParseJSONString(Written.body) = ToValidUTF8(Text(Msg(t)))
              /\ ValidUTF8(Text(Msg(t))) =>
                    ParseJSONString(Written.body) = Text(Msg(t))
              /\ IF loc[t].caller = <<>>
                 THEN Written.caller = <<>>
                 ELSE /\ ParseJSONString(Written.caller) = ToValidUTF8(loc[t].caller)
                      /\ ValidUTF8(loc[t].caller) =>
                            ParseJSONString(Written.caller) = loc[t].caller]_vars

\* C16's case: the file holds a whole JSON record of a Warning call with a
\* caller and a message in which a quote, a backslash and a newline were
\* escaped and the markup characters were not
C16_Witness ==
    \E i \in 1..Len(files[InitPath]) :
        /\ files[InitPath][i].part = "tail"
        /\ files[InitPath][i].rec.fmt = "json"
        /\ ParseJSONString(files[InitPath][i].rec.level) = BareName(WARNING)
        /\ ParseJSONString(files[InitPath][i].rec.caller) = CallerLoc
        /\ ParseJSONString(files[InitPath][i].rec.body) = Texts[1]
        /\ files[InitPath][i].rec.body # <<Quote>> \o Texts[1] \o <<Quote>>

\* the positions at which a goroutine holds the mutex
HoldsMutex == {"write", "write2", "unlock", "df_close", "df_nil", "df_unlock",
               "ef_close", "ef_open", "ef_unlock"}

\* the positions at which a goroutine waits for the mutex
WaitsForMutex == {"lock", "df_lock", "ef_lock"}

\* some step of a call in progress can be taken
CanStep == \E t \in Threads : ENABLED (LogStep(t) \/ SinkStep(t))

\* C17: the mutex is held only by a goroutine that is between its Lock and
\* its Unlock, so a goroutine that has returned from log(), DisableFile or
\* EnableFile (with or without an error) does not hold it; whenever a call is
\* in progress some goroutine can take a step; and under fair scheduling,
\* whenever calls are in progress, a moment comes at which all of them have
\* returned.
C17_MutexReleasedAllReturn ==
    /\ [](\A t \in Threads : mu = t <=> pc[t] \in HoldsMutex)
    /\ []((\E t \in Threads : pc[t] # "idle") => CanStep)
    /\ (~Quiescent) ~> Quiescent

\* C17's case: an emission waits for the mutex while an EnableFile whose open
\* has failed still holds it
C17_Witness ==
    \E t, u \in Threads :
        /\ pc[t] = "ef_unlock"
        /\ loc[t].err
        /\ mu = t
        /\ pc[u] = "lock"

\* C18 as claimed: an emission about to write its record finds the sink's
\* handle non-nil and open.
C18_WritesOnOpenHandle ==
    \A t \in Threads : pc[t] = "write" => Usable(logFile)

\* C19 as claimed: no handle is closed more than once.
C19_HandleClosedAtMostOnce ==
    \A h \in 1..Len(handles) : handles[h].closes <= 1

\* C20: an emission writes both pieces of its record while it holds the
\* mutex, to the file of the handle that is installed at that moment, and the
\* installed handle does not change while the record is being written; so a
\* file grows only while the installed handle refers to it, and once a
\* successful EnableFile has installed a handle on another path, an emission
\* that passed its sink check earlier appends to the new file and not to the
\* previous one.
C20_WritesGoToInstalledHandle ==
    [][/\ \A t \in Threads :
             /\ (pc[t] = "write" /\ pc'[t] # "write") =>
                   /\ mu = t
                   /\ IF Usable(logFile)
                      THEN /\ files' = [files EXCEPT ![handles[logFile].path] =
                                           Append(@, Appended(handles[logFile].path))]
                           /\ Appended(handles[logFile].path).id = Msg(t)
                           /\ loc'[t].target = handles[logFile].path
                      ELSE files' = files
             /\ (pc[t] = "write2" /\ pc'[t] # "write2") =>
                   /\ mu = t
                   /\ logFile # Nil
                   /\ handles[logFile].path = loc[t].target
                   /\ files' = [files EXCEPT ![loc[t].target] =
                                   Append(@, Appended(loc[t].target))]
                   /\ Appended(loc[t].target).id = Msg(t)
             /\ pc[t] \in {"write", "write2"} => logFile' = logFile
       /\ \A p \in Writable :
             files'[p] # files[p] =>
                 /\ logFile # Nil /\ handles[logFile].path = p
                 /\ \E t \in Threads : pc[t] \in {"write", "write2"} /\ mu = t]_vars

\* C20's case: an emission that has passed its sink check waits for the mutex
\* while EnableFile, holding it, has installed a handle on the other path
C20_Witness ==
    \E t, u \in Threads :
        /\ pc[t] = "ef_unlock"
        /\ ~loc[t].err
        /\ logFile # Nil
        /\ handles[logFile].path = OtherPath
        /\ handles[1].path = InitPath
        /\ pc[u] = "lock"

=============================================================================
